---- MODULE Spec2Model ----
(***************************************************************************)
(* QtPythonEmbed: the CodeRunner (execution controller), the part of the   *)
(* PythonInterpreterManager it drives, and the part of PyWindow that       *)
(* submits code and receives the runner's signals.                         *)
(*                                                                         *)
(* Threads.  PyWindow lives on the UI thread.  The CodeRunner is moved to  *)
(* m_runnerThread (PyWindow.cpp:179-182), so runCode, the queued call of   *)
(* executePythonCodeSafely and the queued lineExecuted lambdas are all     *)
(* events of the worker thread's event queue (wq), handled one at a time.  *)
(* Signals of the runner are connected to PyWindow with the default        *)
(* connection type, hence queued to the UI thread in emission order:       *)
(* `emitted' is what the worker has emitted, its first `delivered'         *)
(* entries are what the UI thread has handled.  abortExecution() is the    *)
(* one runner method PyWindow calls directly from the UI thread.           *)
(***************************************************************************)
EXTENDS Integers, Sequences, FiniteSets, TLC

\* ------------------------------------------------------------- bounds
\* Number of runCode submissions PyWindow posts in one behaviour.
MaxRuns == 2
\* Cap on the lineExecuted lambdas an endless loop queues before an abort.
MaxPending == 3
\* Saturation of the history counter of trace events after an abort.
MaxCount == 2
\* Number of times a client gets the interpreter initialized.
MaxInits == 2

\* ---------------------------------------------------- program constants
\* Line of "class OutputRedirector:" in the script redirectPythonOutput runs.
RedirectClassLine == 2
\* Line of "self.callback(text)" in OutputRedirector.write.
RedirectWriteLine == 7
\* m_currentLine when nothing executes.
NoLine == -1
\* The line of a null frame handed to the trace callback.
NoFrame == 0

\* The interpreted programs submitted as source text.  A program is the
\* sequence of its statements; each gives the line of its trace event and
\* what the statement does: write a chunk to sys.stdout, raise an uncaught
\* exception, or nothing.  "loop" is `while True:' with `pass' on the next
\* line: it never ends, its two statements repeat.  "call" defines a function
\* f on lines 1-2 and calls it on line 3: the interpreter reports the line
\* events of lines 1 and 3, the call event of f, the line and return events
\* of f's body, and the line event of line 4.
Programs == {"print3", "fault", "loop"}

\* The program a Caller steps through: the one with a function call.
StepPrograms == {"call"}

Stmt(line, op, chunk) == [line |-> line, op |-> op, chunk |-> chunk]

Body(code) ==
    CASE code = "print3" -> << Stmt(1, "write", "A"), Stmt(2, "write", "B"),
                               Stmt(3, "write", "C") >>
      [] code = "fault"  -> << Stmt(1, "write", "A"), Stmt(2, "raise", "") >>
      [] code = "loop"   -> << Stmt(1, "pass", ""), Stmt(2, "pass", "") >>
      [] code = "call"   -> << Stmt(1, "pass", ""), Stmt(3, "pass", ""),
                               Stmt(1, "call", ""), Stmt(2, "pass", ""),
                               Stmt(2, "return", ""), Stmt(4, "pass", "") >>

Loops(code) == code = "loop"

\* The chunks a program writes when it runs to its end.
RECURSIVE ChunksOf(_)
ChunksOf(stmts) ==
    IF stmts = << >> THEN << >>
    ELSE (IF Head(stmts).op = "write" THEN << Head(stmts).chunk >> ELSE << >>)
         \o ChunksOf(Tail(stmts))

DebugStates == {"Running", "Paused", "StepInto", "StepOver", "StepOut"}

\* CodeRunner instances a client constructs, and g_currentRunner == nullptr.
Runners == {"r1", "r2"}
NoRunner == "none"

\* The lines of the editor whose gutter is clicked.
BreakLines == {1, 2}

VARIABLES
    \* PythonInterpreterManager
    m_initialized,      \* the interpreter was initialized
    gilHeld,            \* the worker holds the GIL state of PyGILState_Ensure
    traceInstalled,     \* PyEval_SetTrace(pythonTraceFunction) is in force
    pyErrSet,           \* the interpreter's error indicator is set
    \* CodeRunner
    m_isExecuting,
    m_shouldAbort,
    m_debugState,
    m_breakpoints,
    m_callDepth,
    m_currentLine,
    \* worker thread
    wq,                 \* event queue of the worker thread
    wpc,                \* "loop": in the event loop; "exec": inside executeCode;
                        \* "exit": past the emission of executionFinished on
                        \* the normal path, before the last line of
                        \* executePythonCodeSafely
    cur,                \* the run in progress: code, next statement, session,
                        \* depth of the interpreter's frame (0: module level)
    \* PyWindow (UI thread)
    win_isExecuting,    \* PyWindow::m_isExecuting
    delivered,          \* signals of `emitted' the UI thread has handled
    runs,               \* runCode submissions posted so far
    replied,            \* the last session whose executionFinished the window
                        \* answered with a submission (history), 0 if none
    breakpoints,        \* PyEditor::breakpoints
    currentLine,        \* PyEditor::currentLine
    lastSet,            \* the last call of PyEditor::setCurrentLine: its
                        \* argument, whether it emitted currentLineChanged, and
                        \* a bit that flips at every call (history)
    \* history
    emitted,            \* signals emitted, in emission order
    session,            \* number of accepted submissions
    codeOf,             \* the program of each session
    outcome,            \* how each session ended
    written,            \* chunks each session's program wrote, in order
    abortCalled,        \* abortExecution() was called during the session
    afterAbort,         \* trace events of the session since that call
    posted,             \* lines of each session's trace events that posted a
                        \* lineExecuted lambda, in the order of the events
    stepDepth,          \* frame depth when the last step command was issued
    bpSess,             \* session executing when setBreakpoints was last
                        \* called, 0 if none was
    touched,            \* the worker's calls into the interpreter, each with
                        \* whether the GIL was held at the call
    gilLog,             \* the worker's PyGILState_Ensure and PyGILState_Release
                        \* calls of the last session begun, in order
    \* the classes under a client other than PyWindow
    g_currentRunner,    \* the static pointer of CodeRunner.cpp
    constructed,        \* the CodeRunner instances constructed
    r_shouldAbort,      \* m_shouldAbort of each instance
    activeRunner,       \* the instance whose session is executing
    r_posted,           \* lambdas posted to each instance, not yet run
    lastTrace,          \* the last call of the trace callback and its result
    m_mainThreadState,  \* PythonInterpreterManager::m_mainThreadState is set
    initResult,         \* what the last initialize() returned
    pyInits,            \* calls of py::initialize_interpreter so far
    pyFinals            \* calls of py::finalize_interpreter so far

runnerVars == << m_isExecuting, m_shouldAbort, m_debugState, m_breakpoints,
                 m_callDepth, m_currentLine >>
interpVars == << m_initialized, gilHeld, traceInstalled, pyErrSet >>
workerVars == << wq, wpc, cur >>
uiVars     == << win_isExecuting, delivered, runs, replied >>
dbgVars    == << breakpoints, stepDepth, bpSess >>
histVars   == << emitted, session, codeOf, outcome, written, abortCalled, afterAbort,
                 posted >>
auditVars  == << touched, gilLog >>
bridgeVars == << g_currentRunner, constructed, r_shouldAbort, activeRunner,
                 r_posted, lastTrace >>
lifeVars   == << m_mainThreadState, initResult, pyInits, pyFinals >>
edVars     == << currentLine, lastSet >>
\* What the steps of the worker and of the window's buttons leave alone.
apiVars    == << bridgeVars, lifeVars, edVars >>
vars       == << runnerVars, interpVars, workerVars, uiVars, dbgVars, histVars,
                 auditVars, apiVars >>

\* ------------------------------------------------------------ helpers
Sig(sig, sess, arg) == [sig |-> sig, sess |-> sess, arg |-> arg]

\* The events of the worker's queue.  `reply' of a runCode event is history:
\* the session whose executionFinished the window answered by posting it.
RunCodeEvent(code, reply) ==
    [type |-> "runCode", code |-> code, sess |-> 0, line |-> NoLine, reply |-> reply]
ExecEvent(code, sess) ==
    [type |-> "exec", code |-> code, sess |-> sess, line |-> NoLine, reply |-> 0]
LineEvent(line, sess) ==
    [type |-> "line", code |-> "", sess |-> sess, line |-> line, reply |-> 0]

Idle == [code |-> "", ip |-> 0, sess |-> 0, depth |-> 0]

LinesQueued == Len(SelectSeq(wq, LAMBDA e : e.type = "line"))
ExecQueued == \E i \in 1..Len(wq) : wq[i].type = "exec"

Min(a, b) == IF a <= b THEN a ELSE b

\* A call of the worker into the interpreter, and the GIL at that call.
Access(op, gil) == [op |-> op, gil |-> gil]

\* The lines of the lineExecuted lambdas of session k in a queue.
RECURSIVE LinesFor(_, _)
LinesFor(q, k) ==
    IF q = << >> THEN << >>
    ELSE (IF Head(q).type = "line" /\ Head(q).sess = k
          THEN << Head(q).line >> ELSE << >>) \o LinesFor(Tail(q), k)

\* History of the trace events of a step: base is the worker's queue before
\* the step's trace events, wq' holds what they posted behind it.
RecordPosted(base) ==
    posted' = [k \in 1..MaxRuns |->
                  posted[k] \o LinesFor(SubSeq(wq', Len(base) + 1, Len(wq')), k)]

\* No call of PyEditor::setCurrentLine yet.
NoSet == [called |-> FALSE, line |-> NoLine, changed |-> FALSE, tick |-> 0]

\* A runner just constructed, its thread in the event loop, an idle window.
AppIdle ==
    /\ currentLine = NoLine
    /\ lastSet = NoSet
    /\ gilHeld = FALSE
    /\ traceInstalled = FALSE
    /\ pyErrSet = FALSE
    /\ m_isExecuting = FALSE
    /\ m_shouldAbort = FALSE
    /\ m_debugState = "Running"
    /\ m_breakpoints = {}
    /\ m_callDepth = 0
    /\ m_currentLine = NoLine
    /\ wq = << >>
    /\ wpc = "loop"
    /\ cur = Idle
    /\ win_isExecuting = FALSE
    /\ delivered = 0
    /\ runs = 0
    /\ replied = 0
    /\ emitted = << >>
    /\ session = 0
    /\ codeOf = [k \in 1..MaxRuns |-> ""]
    /\ outcome = [k \in 1..MaxRuns |-> "none"]
    /\ written = [k \in 1..MaxRuns |-> << >>]
    /\ abortCalled = FALSE
    /\ afterAbort = 0
    /\ posted = [k \in 1..MaxRuns |-> << >>]
    /\ breakpoints = {}
    /\ stepDepth = 0
    /\ bpSess = 0
    /\ touched = {}
    /\ gilLog = << >>

\* ---------------------------------------------------------------- Init
\* No call of the trace callback yet.
NoTrace == [called |-> FALSE, runner |-> NoRunner, abort |-> FALSE,
            frame |-> NoFrame, ret |-> 0]

\* PyWindow's constructor has called initialize() once (PyWindow.cpp:160) and
\* has constructed its one CodeRunner (PyWindow.cpp:179).
Init ==
    /\ m_initialized \in BOOLEAN
    /\ AppIdle
    /\ g_currentRunner = "r1"
    /\ constructed = {"r1"}
    /\ r_shouldAbort = [r \in Runners |-> FALSE]
    /\ activeRunner = NoRunner
    /\ r_posted = [r \in Runners |-> << >>]
    /\ lastTrace = NoTrace
    /\ m_mainThreadState = m_initialized
    /\ initResult = IF m_initialized THEN "true" ELSE "false"
    /\ pyInits = IF m_initialized THEN 1 ELSE 0
    /\ pyFinals = 0

\* ------------------------------------------------------- CodeRunner
\* runCode without its m_isExecuting test: every submission is accepted.
runCode_NoGuard(code) ==
    /\ m_shouldAbort' = FALSE
    /\ m_isExecuting' = TRUE
    /\ wq' = Append(Tail(wq), ExecEvent(code, session + 1))
    /\ session' = Min(session + 1, MaxRuns)
    /\ codeOf' = [codeOf EXCEPT ![Min(session + 1, MaxRuns)] = code]
    /\ abortCalled' = FALSE
    /\ afterAbort' = 0

\* runCode that does not clear the abort flag of the previous session.
runCode_KeepAbort(code) ==
    IF m_isExecuting
    THEN /\ wq' = Tail(wq)
         /\ UNCHANGED << m_isExecuting, m_shouldAbort, session, codeOf,
                         abortCalled, afterAbort >>
    ELSE /\ m_shouldAbort' = m_shouldAbort
         /\ m_isExecuting' = TRUE
         /\ wq' = Append(Tail(wq), ExecEvent(code, session + 1))
         /\ session' = session + 1
         /\ codeOf' = [codeOf EXCEPT ![session + 1] = code]
         /\ abortCalled' = FALSE
         /\ afterAbort' = 0

\* CodeRunner::runCode, called from the worker's event loop with the
\* runCode event at the head of wq.
runCode(code) ==
    IF m_isExecuting
    THEN /\ wq' = Tail(wq)
         /\ UNCHANGED << m_isExecuting, m_shouldAbort, session, codeOf,
                         abortCalled, afterAbort >>
    ELSE /\ m_shouldAbort' = FALSE
         /\ m_isExecuting' = TRUE
         /\ wq' = Append(Tail(wq), ExecEvent(code, session + 1))
         /\ session' = session + 1
         /\ codeOf' = [codeOf EXCEPT ![session + 1] = code]
         /\ abortCalled' = FALSE
         /\ afterAbort' = 0

\* abortExecution that flips the flag instead of setting it.
abortExecution_Toggle ==
    /\ m_shouldAbort' = ~m_shouldAbort
    /\ UNCHANGED << m_isExecuting, m_debugState, m_breakpoints, m_callDepth,
                    m_currentLine >>

\* abortExecution that also ends the session by force.
abortExecution_Forced ==
    /\ m_shouldAbort' = TRUE
    /\ m_isExecuting' = FALSE
    /\ UNCHANGED << m_debugState, m_breakpoints, m_callDepth, m_currentLine >>

\* CodeRunner::abortExecution, called by PyWindow on the UI thread.
\* m_shouldAbort is a plain bool read and written by both threads without a
\* lock; every order of these accesses is an interleaving of the steps.
abortExecution ==
    /\ m_shouldAbort' = TRUE
    /\ UNCHANGED << m_isExecuting, m_debugState, m_breakpoints, m_callDepth,
                    m_currentLine >>

\* A trace callback that posts its lambda whatever the abort flag says.
pythonTraceFunction_IgnoresAbort(line, sess) == << LineEvent(line, sess) >>

\* CodeRunner::pythonTraceFunction for one trace event: the lambdas it
\* posts to the runner's (worker) thread.  g_currentRunner is the runner
\* (set by the constructor) and the frame is not null.  It returns 0 and
\* raises nothing, whatever the abort flag says.
pythonTraceFunction(line, sess) ==
    IF ~m_shouldAbort THEN << LineEvent(line, sess) >> ELSE << >>

\* An output callback that forwards every chunk twice.
OutputSignals_Twice(sess, text) ==
    << Sig("outputReceived", sess, text), Sig("outputReceived", sess, text) >>

\* The output callback executePythonCodeSafely hands to
\* redirectPythonOutput: invokeMethod on the runner from the runner's own
\* thread runs the lambda at once, which emits outputReceived(text).
OutputSignals(sess, text) == << Sig("outputReceived", sess, text) >>

\* One write of the program to sys.stdout/sys.stderr: the trace event of
\* OutputRedirector.write(text), then the callback.  q is the worker's queue
\* when write is entered.
RedirectWrite(q, sess, text) ==
    /\ wq' = q \o pythonTraceFunction(RedirectWriteLine, sess)
    /\ emitted' = emitted \o OutputSignals(sess, text)
    /\ written' = [written EXCEPT ![sess] = Append(@, text)]

\* executePythonCodeSafely from its first line up to the call of
\* executeCode: executionStarted, the isInitialized test, GIL, trace hook,
\* output redirection (whose script runs under the trace hook).  With the
\* manager uninitialized: the runtime_error, the outer catch
\* (std::exception) and the last line of the function.
ExecBegin(code, sess) ==
    IF ~m_initialized
    THEN /\ emitted' = emitted \o
                << Sig("executionStarted", sess, ""),
                   Sig("errorOccurred", sess,
                       "Execution error: Python interpreter not initialized") >>
         /\ m_isExecuting' = FALSE
         /\ wq' = Tail(wq)
         /\ outcome' = [outcome EXCEPT ![sess] = "uninit"]
         /\ gilLog' = << >>
         /\ UNCHANGED << gilHeld, traceInstalled, wpc, cur, touched >>
    ELSE /\ emitted' = Append(emitted, Sig("executionStarted", sess, ""))
         /\ gilHeld' = TRUE
         /\ gilLog' = << "ensure" >>
         /\ traceInstalled' = TRUE
         /\ wq' = Tail(wq) \o pythonTraceFunction(RedirectClassLine, sess)
         /\ wpc' = "exec"
         /\ cur' = [code |-> code, ip |-> 1, sess |-> sess, depth |-> 0]
         /\ touched' = touched \cup {Access("PyEval_SetTrace", gilHeld'),
                                      Access("redirectPythonOutput", gilHeld'),
                                      Access("executeCode", gilHeld')}
         /\ UNCHANGED << m_isExecuting, outcome >>

\* What the interpreter says of the uncaught exception of program "fault"
\* (what() of pybind11's error_already_set), and the text executeCode builds
\* from it for pythonError and for the runtime_error it throws.
FaultDescription == "Exception: boom"
PythonErrorText == "Python execution error: Exception: boom"

\* The fault path without its PyGILState_Release.
ExecFault_NoRelease(sess) ==
    /\ gilHeld' = gilHeld
    /\ gilLog' = gilLog
    /\ \E msg \in {"Unknown Python error", "Unknown error during execution"} :
          emitted' = emitted \o
                << Sig("pythonError", sess, PythonErrorText),
                   Sig("errorOccurred", sess, msg),
                   Sig("executionFinished", sess, "") >>
    /\ m_isExecuting' = FALSE
    /\ outcome' = [outcome EXCEPT ![sess] = "fault"]
    /\ wpc' = "loop"
    /\ cur' = Idle
    /\ touched' = touched \cup {Access("PyErr_Occurred", gilHeld')}
    /\ UNCHANGED << traceInstalled, pyErrSet >>

\* The fault path without its reset of m_isExecuting.
ExecFault_KeepsExecuting(sess) ==
    /\ gilHeld' = FALSE
    /\ \E msg \in {"Unknown Python error", "Unknown error during execution"} :
          emitted' = emitted \o
                << Sig("pythonError", sess, PythonErrorText),
                   Sig("errorOccurred", sess, msg),
                   Sig("executionFinished", sess, "") >>
    /\ m_isExecuting' = m_isExecuting
    /\ outcome' = [outcome EXCEPT ![sess] = "fault"]
    /\ wpc' = "loop"
    /\ cur' = Idle
    /\ gilLog' = Append(gilLog, "release")
    /\ touched' = touched \cup {Access("PyErr_Occurred", gilHeld')}
    /\ UNCHANGED << traceInstalled, pyErrSet >>

\* executeCode's catch of error_already_set (pythonError, rethrown as
\* runtime_error) and the inner catch (...) of executePythonCodeSafely.
\* PyErr_Occurred() is called after PyGILState_Release, so which of the two
\* messages is sent is not determined.
ExecFault(sess) ==
    /\ gilHeld' = FALSE
    /\ \E msg \in {"Unknown Python error", "Unknown error during execution"} :
          emitted' = emitted \o
                << Sig("pythonError", sess, PythonErrorText),
                   Sig("errorOccurred", sess, msg),
                   Sig("executionFinished", sess, "") >>
    /\ m_isExecuting' = FALSE
    /\ outcome' = [outcome EXCEPT ![sess] = "fault"]
    /\ wpc' = "loop"
    /\ cur' = Idle
    /\ gilLog' = Append(gilLog, "release")
    /\ touched' = touched \cup {Access("PyErr_Occurred", gilHeld')}
    /\ UNCHANGED << traceInstalled, pyErrSet >>

\* The normal exit reporting an error before executionFinished.
ExecFinish_ReportsError(sess) ==
    /\ traceInstalled' = FALSE
    /\ pyErrSet' = (pyErrSet \/ m_shouldAbort)
    /\ gilHeld' = FALSE
    /\ emitted' = emitted \o << Sig("errorOccurred", sess, "Unknown Python error"),
                                Sig("executionFinished", sess, "") >>
    /\ outcome' = [outcome EXCEPT ![sess] = IF m_shouldAbort THEN "aborted" ELSE "normal"]
    /\ wpc' = "exit"
    /\ cur' = Idle
    /\ gilLog' = Append(gilLog, "release")
    /\ touched' = touched \cup {Access("PyEval_SetTrace", gilHeld)}
                     \cup (IF m_shouldAbort
                           THEN {Access("PyErr_SetString", gilHeld)} ELSE {})

\* executePythonCodeSafely after executeCode has returned: clear the trace
\* hook, the abort test, release the GIL, executionFinished (lines 128-172).
ExecFinish(sess) ==
    /\ traceInstalled' = FALSE
    /\ pyErrSet' = (pyErrSet \/ m_shouldAbort)
    /\ gilHeld' = FALSE
    /\ emitted' = Append(emitted, Sig("executionFinished", sess, ""))
    /\ outcome' = [outcome EXCEPT ![sess] = IF m_shouldAbort THEN "aborted" ELSE "normal"]
    /\ wpc' = "exit"
    /\ cur' = Idle
    /\ gilLog' = Append(gilLog, "release")
    /\ touched' = touched \cup {Access("PyEval_SetTrace", gilHeld)}
                     \cup (IF m_shouldAbort
                           THEN {Access("PyErr_SetString", gilHeld)} ELSE {})

\* The last line of executePythonCodeSafely on the normal path (line 185):
\* the executing flag is cleared and the worker returns to its event loop.
ExecReturn ==
    /\ m_isExecuting' = FALSE
    /\ wpc' = "loop"

\* ------------------------------------------------ worker thread steps
NextIp == IF Loops(cur.code) /\ cur.ip = Len(Body(cur.code)) THEN 1 ELSE cur.ip + 1

CountAfterAbort == IF abortCalled THEN Min(afterAbort + 1, MaxCount) ELSE afterAbort

\* The event loop takes a runCode event.
WorkerRunCode ==
    /\ wpc = "loop" /\ wq # << >> /\ Head(wq).type = "runCode"
    /\ runCode(Head(wq).code)
    /\ UNCHANGED << apiVars, auditVars, dbgVars, m_debugState, m_breakpoints, m_callDepth, m_currentLine,
                    interpVars, wpc, cur, uiVars, emitted, outcome, written,
                    posted >>

\* The event loop takes the queued call of executePythonCodeSafely.
WorkerExecBegin ==
    /\ wpc = "loop" /\ wq # << >> /\ Head(wq).type = "exec"
    /\ ExecBegin(Head(wq).code, Head(wq).sess)
    /\ RecordPosted(Tail(wq))
    /\ UNCHANGED << apiVars, dbgVars, m_shouldAbort, m_debugState, m_breakpoints, m_callDepth,
                    m_currentLine, m_initialized, pyErrSet, uiVars, session,
                    codeOf, written, abortCalled, afterAbort >>

\* The frame depth after an event: a call enters a frame, a return leaves it.
DepthAfter(op, depth) ==
    CASE op = "call" -> depth + 1
      [] op = "return" -> depth - 1
      [] OTHER -> depth

\* The interpreter reports one event that neither writes nor raises: the
\* line event of a statement, or the call or return event of a function.
\* pythonTraceFunction ignores the kind of the event.
WorkerPass ==
    /\ wpc = "exec" /\ cur.ip <= Len(Body(cur.code))
    /\ Body(cur.code)[cur.ip].op \in {"pass", "call", "return"}
    /\ ~Loops(cur.code) \/ m_shouldAbort \/ LinesQueued < MaxPending
    /\ wq' = wq \o pythonTraceFunction(Body(cur.code)[cur.ip].line, cur.sess)
    /\ cur' = [cur EXCEPT !.ip = NextIp,
                          !.depth = DepthAfter(Body(cur.code)[cur.ip].op, @)]
    /\ afterAbort' = CountAfterAbort
    /\ RecordPosted(wq)
    /\ UNCHANGED << apiVars, auditVars, dbgVars, runnerVars, interpVars, wpc, uiVars, emitted, session,
                    codeOf, outcome, written, abortCalled >>

\* The interpreter runs one statement that writes a chunk.
WorkerWrite ==
    /\ wpc = "exec" /\ cur.ip <= Len(Body(cur.code))
    /\ Body(cur.code)[cur.ip].op = "write"
    /\ LET s == Body(cur.code)[cur.ip]
       IN RedirectWrite(wq \o pythonTraceFunction(s.line, cur.sess), cur.sess, s.chunk)
    /\ cur' = [cur EXCEPT !.ip = NextIp]
    /\ afterAbort' = CountAfterAbort
    /\ RecordPosted(wq)
    /\ UNCHANGED << apiVars, auditVars, dbgVars, runnerVars, interpVars, wpc, uiVars, session, codeOf,
                    outcome, abortCalled >>

\* The interpreter runs a statement that raises an uncaught exception.
WorkerRaise ==
    /\ wpc = "exec" /\ cur.ip <= Len(Body(cur.code))
    /\ Body(cur.code)[cur.ip].op = "raise"
    /\ wq' = wq \o pythonTraceFunction(Body(cur.code)[cur.ip].line, cur.sess)
    /\ ExecFault(cur.sess)
    /\ afterAbort' = CountAfterAbort
    /\ RecordPosted(wq)
    /\ UNCHANGED << apiVars, dbgVars, m_shouldAbort, m_debugState, m_breakpoints, m_callDepth,
                    m_currentLine, m_initialized, uiVars, session, codeOf,
                    written, abortCalled >>

\* The program has run to its end: executeCode returns.
WorkerExecEnd ==
    /\ wpc = "exec" /\ cur.ip > Len(Body(cur.code))
    /\ ExecFinish(cur.sess)
    /\ UNCHANGED << apiVars, dbgVars, runnerVars, m_initialized, wq, uiVars, session,
                    codeOf, written, abortCalled, afterAbort, posted >>

\* executePythonCodeSafely returns after the normal path.
WorkerExecReturn ==
    /\ wpc = "exit"
    /\ ExecReturn
    /\ UNCHANGED << apiVars, auditVars, dbgVars, m_shouldAbort, m_debugState,
                    m_breakpoints, m_callDepth, m_currentLine, interpVars, wq, cur,
                    uiVars, histVars >>

\* An event loop that takes the newest posted lambda first.
WorkerLine_Lifo ==
    /\ wpc = "loop" /\ wq # << >> /\ Head(wq).type = "line"
    /\ LET last == CHOOSE i \in 1..Len(wq) :
                      /\ wq[i].type = "line"
                      /\ \A j \in (i + 1)..Len(wq) : wq[j].type # "line"
       IN /\ emitted' = Append(emitted, Sig("lineExecuted", wq[last].sess, wq[last].line))
          /\ wq' = SubSeq(wq, 1, last - 1) \o SubSeq(wq, last + 1, Len(wq))
    /\ UNCHANGED << apiVars, auditVars, dbgVars, runnerVars, interpVars, wpc, cur, uiVars, session, codeOf,
                    outcome, written, abortCalled, afterAbort, posted >>

\* The event loop takes a lambda posted by pythonTraceFunction.
WorkerLine ==
    /\ wpc = "loop" /\ wq # << >> /\ Head(wq).type = "line"
    /\ emitted' = Append(emitted, Sig("lineExecuted", Head(wq).sess, Head(wq).line))
    /\ wq' = Tail(wq)
    /\ UNCHANGED << apiVars, auditVars, dbgVars, runnerVars, interpVars, wpc, cur, uiVars, session, codeOf,
                    outcome, written, abortCalled, afterAbort, posted >>

Worker ==
    \/ WorkerRunCode
    \/ WorkerExecBegin
    \/ WorkerPass
    \/ WorkerWrite
    \/ WorkerRaise
    \/ WorkerExecEnd
    \/ WorkerExecReturn
    \/ WorkerLine

\* ----------------------------------------------------- PyWindow steps
\* PyWindow::runPythonCode with the window executing: abort.
ClickAbort ==
    /\ win_isExecuting
    /\ abortExecution
    /\ abortCalled' = (abortCalled \/ m_isExecuting)
    /\ UNCHANGED << apiVars, auditVars, dbgVars, interpVars, workerVars, uiVars, emitted, session, codeOf,
                    outcome, written, afterAbort, posted >>

\* The last session whose executionFinished the UI thread has handled.
LastFinished ==
    LET F == {i \in 1..delivered : emitted[i].sig = "executionFinished"}
    IN IF F = {} THEN 0 ELSE emitted[CHOOSE i \in F : \A j \in F : j <= i].sess

\* PyWindow::runPythonCode with the window idle: a queued call of runCode.
PostRunCode(codes) ==
    /\ LET reply == IF LastFinished > replied THEN LastFinished ELSE 0
       IN /\ \E code \in codes : wq' = Append(wq, RunCodeEvent(code, reply))
          /\ replied' = IF reply > 0 THEN reply ELSE replied
    /\ runs' = runs + 1
    /\ UNCHANGED << apiVars, auditVars, dbgVars, runnerVars, interpVars, wpc, cur, win_isExecuting,
                    delivered, histVars >>

\* A click on Run with the window idle.
ClickRun ==
    /\ ~win_isExecuting
    /\ runs < MaxRuns
    /\ PostRunCode(Programs)

\* One more click on Run with the window idle, after those of ClickRun and
\* before the last session the history has room for is accepted.
ClickRunAgain ==
    /\ ~win_isExecuting
    /\ runs = MaxRuns /\ session < MaxRuns
    /\ PostRunCode(Programs)

\* The signals PyWindow::connectSignals connects to PyWindow::appendError:
\* the runner's errorOccurred and the manager's pythonError.
AppendErrorSignals == {"errorOccurred", "pythonError"}

\* A setCurrentLine that takes every line it is given and always notifies.
setCurrentLine_Always(line) ==
    /\ currentLine' = line
    /\ lastSet' = [called |-> TRUE, line |-> line, changed |-> TRUE,
                   tick |-> 1 - lastSet.tick]

\* PyEditor::setCurrentLine: a line that differs from the current one and is
\* not negative becomes the current line and currentLineChanged is emitted.
setCurrentLine(line) ==
    LET change == line # currentLine /\ line >= 0
    IN /\ currentLine' = IF change THEN line ELSE currentLine
       /\ lastSet' = [called |-> TRUE, line |-> line, changed |-> change,
                      tick |-> 1 - lastSet.tick]

\* The UI thread handles the next queued signal: onExecutionStart,
\* onExecutionFinish, appendOutput, appendError, PyEditor::setCurrentLine.
UIDeliver ==
    /\ delivered < Len(emitted)
    /\ delivered' = delivered + 1
    /\ win_isExecuting' =
          CASE emitted[delivered + 1].sig = "executionStarted" -> TRUE
            [] emitted[delivered + 1].sig = "executionFinished" -> FALSE
            [] OTHER -> win_isExecuting
    /\ IF emitted[delivered + 1].sig = "lineExecuted"
       THEN setCurrentLine(emitted[delivered + 1].arg)
       ELSE UNCHANGED edVars
    /\ UNCHANGED << bridgeVars, lifeVars, auditVars, dbgVars, runnerVars, interpVars,
                    workerVars, runs, replied, histVars >>

Next == Worker \/ ClickAbort \/ ClickRun \/ UIDeliver

Spec == Init /\ [][Next]_vars

ResubmitNext == Next \/ ClickRunAgain

\* The program with a user who clicks Run once more.
ResubmitSpec == Init /\ [][ResubmitNext]_vars

\* The worker and the UI thread keep being scheduled.
FairSpec == Spec /\ WF_vars(Worker) /\ WF_vars(UIDeliver)

\* ------------------------------------------- breakpoints and stepping
\* CodeRunner.h declares the slots setBreakpoints, continueExecution,
\* stepInto, stepOver and stepOut; CodeRunner.cpp defines none of them.  They
\* are modelled by their contract: setBreakpoints replaces the set, each of
\* the others moves the debug state to its target and wakes a worker that
\* waits on m_debugCondition (no code waits on it, so waking changes nothing).
setBreakpoints(S) == m_breakpoints' = S

continueExecution == m_debugState' = "Running"

stepInto == m_debugState' = "StepInto"

stepOver == m_debugState' = "StepOver"

stepOut == m_debugState' = "StepOut"

\* A toggle that only ever inserts the line.
Toggled_InsertOnly(S, lineNumber) == S \cup {lineNumber}

\* The set PyEditor::toggleBreakpoint leaves in `breakpoints': the line is
\* removed if the set contains it, inserted otherwise.
Toggled(S, lineNumber) ==
    IF lineNumber \in S THEN S \ {lineNumber} ELSE S \cup {lineNumber}

\* PyEditor::toggleBreakpoint: the line enters or leaves the editor's set and
\* breakpointsChanged(breakpoints) is emitted; PyWindow connects that signal
\* to setBreakpoints with Qt::DirectConnection, so the slot runs in the call.
toggleBreakpoint(lineNumber) ==
    /\ breakpoints' = Toggled(breakpoints, lineNumber)
    /\ setBreakpoints(breakpoints')

\* A click in the editor's gutter.  The editor is disabled between
\* onExecutionStart and onExecutionFinish.
ClickGutter ==
    /\ ~win_isExecuting
    /\ \E lineNumber \in BreakLines : toggleBreakpoint(lineNumber)
    /\ bpSess' = IF m_isExecuting THEN session ELSE 0
    /\ UNCHANGED << apiVars, auditVars, m_isExecuting, m_shouldAbort, m_debugState, m_callDepth,
                    m_currentLine, interpVars, workerVars, uiVars, stepDepth,
                    histVars >>

\* The Caller issues a debug command during a session: the slot runs on the
\* Caller's thread (Qt::DirectConnection).
DebugCommand ==
    /\ m_isExecuting
    /\ \/ continueExecution /\ stepDepth' = stepDepth
       \/ stepInto /\ stepDepth' = cur.depth
       \/ stepOver /\ stepDepth' = cur.depth
       \/ stepOut /\ stepDepth' = cur.depth
    /\ UNCHANGED << apiVars, auditVars, m_isExecuting, m_shouldAbort, m_breakpoints, m_callDepth,
                    m_currentLine, interpVars, workerVars, uiVars, breakpoints,
                    bpSess, histVars >>

BreakNext == Next \/ ClickGutter

\* The program with a user who sets and clears breakpoints in the editor.
BreakSpec == Init /\ [][BreakNext]_vars

\* A click on Run with the program of StepPrograms in the editor.
ClickRunCall ==
    /\ ~win_isExecuting
    /\ runs < MaxRuns
    /\ PostRunCode(StepPrograms)

StepNext == Next \/ ClickRunCall \/ DebugCommand

\* The program with a Caller that issues debug commands.
StepSpec == Init /\ [][StepNext]_vars

\* ------------------------------------------------- the editor alone
\* The lines a Caller hands to PyEditor::setCurrentLine.
LineInputs == {NoLine, 0, 1, 2}

\* A Caller delivers a line notification to the editor.
EditorSetLine ==
    /\ \E line \in LineInputs : setCurrentLine(line)
    /\ UNCHANGED << bridgeVars, lifeVars, auditVars, dbgVars, runnerVars, interpVars,
                    workerVars, uiVars, histVars >>

EditorNext == ClickGutter \/ EditorSetLine

\* The editor under a user who clicks in the gutter and a Caller that
\* delivers line notifications, while nothing executes.
EditorSpec == Init /\ [][EditorNext]_vars

\* -------------------------------- the classes under an arbitrary client
\* PyWindow, its runner and its worker thread, which take no step here.
AppVars == << runnerVars, gilHeld, traceInstalled, pyErrSet, workerVars, uiVars,
              dbgVars, histVars, auditVars, edVars >>

\* A trace callback that reports an error to the interpreter once the
\* registered runner is aborted.
TraceBridge_FailsOnAbort(runner, aborts, frame) ==
    [ret  |-> IF runner # NoRunner /\ aborts[runner] THEN -1 ELSE 0,
     post |-> IF runner # NoRunner /\ ~aborts[runner] /\ frame # NoFrame
              THEN << [runner |-> runner, line |-> frame] >> ELSE << >>]

\* A trace callback without the test of g_currentRunner: with no runner
\* registered the lambda goes to the first instance.
TraceBridge_NoNullTest(runner, aborts, frame) ==
    [ret  |-> 0,
     post |-> IF runner = NoRunner
              THEN << [runner |-> "r1", line |-> frame] >>
              ELSE IF ~aborts[runner] /\ frame # NoFrame
                   THEN << [runner |-> runner, line |-> frame] >> ELSE << >>]

\* CodeRunner::pythonTraceFunction as a function of what it reads: the
\* static g_currentRunner, that instance's m_shouldAbort, and the frame.  It
\* yields the return code and the lambda it posts, if any, with the instance
\* the lambda is posted to.
TraceBridge(runner, aborts, frame) ==
    [ret  |-> 0,
     post |-> IF runner # NoRunner /\ ~aborts[runner] /\ frame # NoFrame
              THEN << [runner |-> runner, line |-> frame] >> ELSE << >>]

\* CodeRunner::CodeRunner: the new instance, its abort flag false by the
\* member initializer, becomes g_currentRunner.
Construct(r) ==
    /\ r \notin constructed
    /\ constructed' = constructed \cup {r}
    /\ g_currentRunner' = r
    /\ r_shouldAbort' = [r_shouldAbort EXCEPT ![r] = FALSE]
    /\ UNCHANGED << activeRunner, r_posted, lastTrace, lifeVars,
                    m_initialized, AppVars >>

\* runCode accepted by an idle instance on an initialized interpreter: the
\* abort flag is cleared and its session executes.
BridgeRun(r) ==
    /\ r \in constructed /\ activeRunner = NoRunner /\ m_initialized
    /\ r_shouldAbort' = [r_shouldAbort EXCEPT ![r] = FALSE]
    /\ activeRunner' = r
    /\ UNCHANGED << g_currentRunner, constructed, r_posted, lastTrace, lifeVars,
                    m_initialized, AppVars >>

\* abortExecution() on an instance.
BridgeAbort(r) ==
    /\ r \in constructed
    /\ r_shouldAbort' = [r_shouldAbort EXCEPT ![r] = TRUE]
    /\ UNCHANGED << g_currentRunner, constructed, activeRunner, r_posted,
                    lastTrace, lifeVars,
                    m_initialized, AppVars >>

\* The executing session ends.
BridgeEnd ==
    /\ activeRunner # NoRunner
    /\ activeRunner' = NoRunner
    /\ UNCHANGED << g_currentRunner, constructed, r_shouldAbort, r_posted,
                    lastTrace, lifeVars,
                    m_initialized, AppVars >>

\* What a call of the trace callback can read as the abort flags: the flags
\* of the live instances, and either value through a g_currentRunner that
\* points to a destroyed instance.
FlagsRead ==
    IF g_currentRunner \in constructed \cup {NoRunner}
    THEN {r_shouldAbort}
    ELSE {[r_shouldAbort EXCEPT ![g_currentRunner] = b] : b \in BOOLEAN}

\* The trace callback is called with a frame (or with none).  It is applied
\* in every state of the bridge, also where the interpreter has no reason to
\* call it (nothing registered, no session executing).
BridgeTrace(frame) ==
    \E aborts \in FlagsRead :
       LET res == TraceBridge(g_currentRunner, aborts, frame)
       IN /\ \A r \in Runners : Len(r_posted[r]) < MaxPending
          /\ r_posted' = [r \in Runners |->
                             r_posted[r] \o
                             [i \in 1..Len(SelectSeq(res.post, LAMBDA e : e.runner = r))
                                |-> frame]]
          /\ lastTrace' = [called |-> TRUE, runner |-> g_currentRunner,
                           abort |-> (g_currentRunner # NoRunner
                                      /\ aborts[g_currentRunner]),
                           frame |-> frame, ret |-> res.ret]
          /\ UNCHANGED << g_currentRunner, constructed, r_shouldAbort, activeRunner,
                       lifeVars,
                    m_initialized, AppVars >>

\* An instance's thread runs the oldest lambda posted to it.
BridgeLine(r) ==
    /\ r_posted[r] # << >>
    /\ r_posted' = [r_posted EXCEPT ![r] = Tail(@)]
    /\ UNCHANGED << g_currentRunner, constructed, r_shouldAbort, activeRunner,
                    lastTrace, lifeVars,
                    m_initialized, AppVars >>

\* initialize without its test of m_initialized.
initialize_NoGuard ==
    \/ /\ pyInits < MaxInits
       /\ pyInits' = pyInits + 1
       /\ m_mainThreadState' = TRUE
       /\ m_initialized' = TRUE
       /\ initResult' = "true"
    \/ /\ initResult' = "false"
       /\ UNCHANGED << m_initialized, m_mainThreadState, pyInits >>

\* PythonInterpreterManager::initialize: nothing if already initialized;
\* otherwise the configuration is loaded, which may throw (false is
\* returned), and then the interpreter is initialized.
initialize ==
    IF m_initialized
    THEN /\ initResult' = "true"
         /\ UNCHANGED << m_initialized, m_mainThreadState, pyInits >>
    ELSE \/ /\ pyInits < MaxInits
            /\ pyInits' = pyInits + 1
            /\ m_mainThreadState' = TRUE
            /\ m_initialized' = TRUE
            /\ initResult' = "true"
         \/ /\ initResult' = "false"
            /\ UNCHANGED << m_initialized, m_mainThreadState, pyInits >>

\* PythonInterpreterManager::cleanup: nothing if not initialized; otherwise
\* the main thread state is restored and the interpreter finalized.
cleanup ==
    IF ~m_initialized
    THEN UNCHANGED << m_initialized, m_mainThreadState, pyFinals >>
    ELSE /\ m_mainThreadState' = FALSE
         /\ pyFinals' = pyFinals + 1
         /\ m_initialized' = FALSE

\* A client calls initialize() while no session executes.
CallInitialize ==
    /\ activeRunner = NoRunner
    /\ initialize
    /\ UNCHANGED << pyFinals, bridgeVars, AppVars >>

\* A client calls cleanup() while no session executes.
CallCleanup ==
    /\ activeRunner = NoRunner
    /\ cleanup
    /\ UNCHANGED << initResult, pyInits, bridgeVars, AppVars >>

ApiNext ==
    \/ \E r \in Runners : Construct(r)
    \/ \E r \in Runners : BridgeRun(r)
    \/ \E r \in Runners : BridgeAbort(r)
    \/ \E r \in Runners : BridgeLine(r)
    \/ BridgeEnd
    \/ \E frame \in {NoFrame, 1, 2} : BridgeTrace(frame)
    \/ CallInitialize
    \/ CallCleanup

\* The process before any CodeRunner is constructed and before initialize().
ApiInit ==
    /\ m_initialized = FALSE
    /\ AppIdle
    /\ g_currentRunner = NoRunner
    /\ constructed = {}
    /\ r_shouldAbort = [r \in Runners |-> FALSE]
    /\ activeRunner = NoRunner
    /\ r_posted = [r \in Runners |-> << >>]
    /\ lastTrace = NoTrace
    /\ m_mainThreadState = FALSE
    /\ initResult = "none"
    /\ pyInits = 0
    /\ pyFinals = 0

\* CodeRunner and PythonInterpreterManager under a client that constructs
\* runners, runs and aborts sessions and initializes and cleans up.
ApiSpec == ApiInit /\ [][ApiNext]_vars

\* CodeRunner::~CodeRunner on an instance whose session does not execute:
\* abortExecution(), then ~QObject, which removes the events posted to the
\* instance.  g_currentRunner is left as it is.
Destroy(r) ==
    /\ r \in constructed /\ activeRunner # r
    /\ constructed' = constructed \ {r}
    /\ r_shouldAbort' = [r_shouldAbort EXCEPT ![r] = TRUE]
    /\ r_posted' = [r_posted EXCEPT ![r] = << >>]
    /\ UNCHANGED << g_currentRunner, activeRunner, lastTrace, lifeVars,
                    m_initialized, AppVars >>

TeardownNext == ApiNext \/ \E r \in Runners : Destroy(r)

\* The classes under a client that also destroys runners.
TeardownSpec == ApiInit /\ [][TeardownNext]_vars

\* ======================================================== properties
\* Signals of one kind and session, in emission order.
SignalsOf(seq, sig, k) == SelectSeq(seq, LAMBDA e : e.sig = sig /\ e.sess = k)
Count(sig, k) == Len(SignalsOf(emitted, sig, k))

\* Positions in `emitted' of the signals of one kind and session.
Positions(sig, k) == {i \in 1..Len(emitted) : emitted[i].sig = sig /\ emitted[i].sess = k}

\* Session k was accepted and its run of executePythonCodeSafely is over.
SessionEnded(k) == k <= session /\ outcome[k] # "none"

\* No accepted run is queued or in progress.
NoSessionInFlight == wpc = "loop" /\ ~ExecQueued

\* The worker's event loop handles the runCode event at the head of wq in
\* this step (steps of the UI thread only ever append to wq).
RunCodeHandled ==
    /\ wpc = "loop" /\ wq # << >> /\ Head(wq).type = "runCode"
    /\ wq' # wq /\ Len(wq') <= Len(wq)

\* C1: a runCode handled while m_isExecuting is true only leaves the queue:
\* nothing is enqueued, no session is started, and the executing flag, the
\* abort flag and the queued or running execution stay as they are.
C1_RejectWhileExecuting ==
    [][ (RunCodeHandled /\ m_isExecuting) =>
           /\ wq' = Tail(wq)
           /\ UNCHANGED << m_isExecuting, m_shouldAbort, session, emitted, wpc, cur >>
      ]_vars

\* A second submission was rejected while the first session is still active.
C1_Witness ==
    /\ runs = 2 /\ session = 1 /\ m_isExecuting
    /\ \A i \in 1..Len(wq) : wq[i].type # "runCode"

\* C2: every session that has ended has emitted executionFinished exactly once.
C2_SingleFinish ==
    \A k \in 1..session : SessionEnded(k) => Count("executionFinished", k) = 1

\* C3: every session ended by a fault (interpreter error, uninitialized
\* runtime, abort) has emitted exactly one errorOccurred and, after it,
\* exactly one executionFinished.
C3_FaultSignals ==
    \A k \in 1..session :
       (SessionEnded(k) /\ outcome[k] \in {"fault", "uninit", "aborted"}) =>
          /\ Count("errorOccurred", k) = 1
          /\ Count("executionFinished", k) = 1
          /\ \A i \in Positions("errorOccurred", k) :
                \A j \in Positions("executionFinished", k) : i < j

\* C4: a session accepted with the manager uninitialized reports one
\* errorOccurred, fires executionFinished, and executes nothing: no trace
\* hook, no lock, no output, no line event.
C4_Uninitialized ==
    \A k \in 1..session :
       outcome[k] = "uninit" =>
          /\ Count("errorOccurred", k) = 1
          /\ Count("executionFinished", k) = 1
          /\ Count("outputReceived", k) = 0
          /\ Count("lineExecuted", k) = 0
          /\ written[k] = << >>
          /\ ~traceInstalled /\ ~gilHeld

\* C5: whenever no accepted run is queued or in progress the executing flag
\* is false, and a runCode handled in such a state is accepted.
C5_Reusable ==
    /\ [](NoSessionInFlight => ~m_isExecuting)
    /\ [][ (RunCodeHandled /\ NoSessionInFlight) =>
              (session' = session + 1 /\ m_isExecuting') ]_vars

\* A second session was accepted after the first ended with a fault.
C5_Witness == session = 2 /\ outcome[1] = "fault" /\ m_isExecuting

\* C6: after abortExecution() during a session, at most one more trace
\* event (statement) of the program executes.
C6_CancellationLatency == afterAbort <= 1

\* C7: a session during which abortExecution() was called eventually ends.
C7_AbortLiveness == (abortCalled /\ m_isExecuting) ~> ~m_isExecuting

\* C8: a step that raises the abort flag changes nothing else of the runner,
\* of the worker thread or of the interpreter, and emits nothing.
C8_AbortOnlySetsFlag ==
    [][ (~m_shouldAbort /\ m_shouldAbort') =>
           UNCHANGED << m_isExecuting, m_debugState, m_breakpoints, m_callDepth,
                        m_currentLine, wq, wpc, cur, interpVars, emitted, session >>
      ]_vars

\* The abort flag was raised in the middle of a running program.
C8_Witness ==
    /\ abortCalled /\ m_shouldAbort /\ m_isExecuting
    /\ wpc = "exec" /\ cur.ip > 1 /\ cur.ip <= Len(Body(cur.code))

\* Every signal of a session other than executionStarted comes after the
\* executionStarted of that session.
StartedFirst ==
    \A i \in 1..Len(emitted) :
       emitted[i].sig # "executionStarted" =>
          \E j \in 1..(i - 1) :
             emitted[j].sig = "executionStarted" /\ emitted[j].sess = emitted[i].sess

\* C9: the step that accepts a runCode clears the abort flag, sets the
\* executing flag and only enqueues the run (the worker is back in its event
\* loop, nothing is emitted); executionStarted precedes every other signal
\* of its session.
C9_AcceptThenStartedFirst ==
    /\ []StartedFirst
    /\ [][ (session' = session + 1) =>
              /\ ~m_shouldAbort' /\ m_isExecuting'
              /\ wq' = Append(Tail(wq), ExecEvent(Head(wq).code, session'))
              /\ wpc' = "loop" /\ emitted' = emitted
      ]_vars

\* A second session was accepted after an aborted one and has not begun.
C9_Witness ==
    /\ session = 2 /\ outcome[1] = "aborted"
    /\ ExecQueued /\ m_isExecuting /\ ~m_shouldAbort /\ Count("executionStarted", 2) = 0

\* What the UI thread has handled so far.
Observed == SubSeq(emitted, 1, delivered)

\* The chunks of the outputReceived signals of session k in seq.
RECURSIVE Chunks(_, _)
Chunks(seq, k) ==
    IF seq = << >> THEN << >>
    ELSE (IF Head(seq).sig = "outputReceived" /\ Head(seq).sess = k
          THEN << Head(seq).arg >> ELSE << >>) \o Chunks(Tail(seq), k)

IsPrefix(a, b) == Len(a) <= Len(b) /\ a = SubSeq(b, 1, Len(a))

\* C10: the outputReceived signals the UI thread has handled for a session
\* carry the chunks the program wrote, in the order written; once all of an
\* ended session's signals are handled, each chunk was seen exactly once;
\* a session that ran to its end wrote all the chunks of its program; and
\* the outputs come session after session, so between two outputs of one
\* session there is no output of another.
C10_OutputOrdering ==
    /\ \A k \in 1..session :
          /\ IsPrefix(Chunks(Observed, k), written[k])
          /\ (SessionEnded(k) /\ delivered = Len(emitted)) =>
                Chunks(Observed, k) = written[k]
          /\ outcome[k] \in {"normal", "aborted"} =>
                written[k] = ChunksOf(Body(codeOf[k]))
    /\ LET outs == SelectSeq(Observed, LAMBDA e : e.sig = "outputReceived")
       IN \A i \in 1..(Len(outs) - 1) : outs[i].sess <= outs[i + 1].sess

\* The UI thread has seen A, B, C of a first session and A of a second.
C10_Witness ==
    /\ session = 2
    /\ Chunks(Observed, 1) = << "A", "B", "C" >>
    /\ Chunks(Observed, 2) = << "A" >>

\* C11: a session that ran to its end without fault and without abort has
\* emitted no errorOccurred, and every outputReceived of the session was
\* emitted before its executionFinished.
C11_NormalCompletion ==
    \A k \in 1..session :
       outcome[k] = "normal" =>
          /\ Count("errorOccurred", k) = 0
          /\ Count("executionFinished", k) = 1
          /\ \A i \in Positions("outputReceived", k) :
                \A j \in Positions("executionFinished", k) : i < j

\* A session of three writes has run to its end.
C11_Witness ==
    /\ outcome[1] = "normal" /\ Count("outputReceived", 1) = 3
    /\ Count("executionFinished", 1) = 1

\* C12: every lineExecuted of a session is emitted after the session's
\* executionStarted and before its executionFinished.
C12_LineWithinSession ==
    \A k \in 1..session :
       \A i \in Positions("lineExecuted", k) :
          /\ \E j \in Positions("executionStarted", k) : j < i
          /\ \A j \in Positions("executionFinished", k) : i < j

\* The lines of the lineExecuted signals of session k, in emission order.
LinesEmitted(k) ==
    LET sigs == SignalsOf(emitted, "lineExecuted", k)
    IN [i \in 1..Len(sigs) |-> sigs[i].arg]

\* C13: the lineExecuted signals of a session carry the lines of the
\* session's trace events in the order of the events: what was emitted,
\* followed by what is still queued, is what the trace callback posted.
C13_LineOrder ==
    \A k \in 1..MaxRuns : LinesEmitted(k) \o LinesFor(wq, k) = posted[k]

\* Lines 1 and 2 of a program were notified, with other lines, in order.
C13_Witness ==
    /\ Len(LinesEmitted(1)) >= 4
    /\ \E i, j \in 1..Len(LinesEmitted(1)) :
          i < j /\ LinesEmitted(1)[i] = 1 /\ LinesEmitted(1)[j] = 2

\* The interpreter reports the next event of the running program in this
\* step, hence calls the trace callback for it.
TraceEvent == wpc = "exec" /\ cur.ip <= Len(Body(cur.code)) /\ cur' # cur

EventOp == Body(cur.code)[cur.ip].op
EventLine == Body(cur.code)[cur.ip].line

\* The event is the line event of a statement.
LineTraced == TraceEvent /\ EventOp \in {"pass", "write", "raise"}

\* The step emits debugStateChanged(state) for the running session.
StateNotified(state) ==
    \E i \in (Len(emitted) + 1)..Len(emitted') :
       emitted'[i] = Sig("debugStateChanged", cur.sess, state)

\* The worker pauses in this step.
Pauses == m_debugState' = "Paused" /\ StateNotified("Paused")

\* C14: at a line event with debug state Running the worker pauses (state
\* Paused, debugStateChanged emitted) if and only if the event's line is in
\* the breakpoint set; with an empty set it never pauses.
C14_BreakpointPauses ==
    [][ (LineTraced /\ m_debugState = "Running") =>
           (Pauses <=> EventLine \in m_breakpoints) ]_vars

\* C15: when the first line of a program is reached with a breakpoint on
\* it, debugStateChanged(Paused) is emitted; a continueExecution() issued
\* while Paused emits debugStateChanged(Running) and leaves the session
\* running towards its executionFinished.
C15_PauseContinue ==
    /\ [][ (LineTraced /\ cur.ip = 1 /\ m_debugState = "Running"
              /\ EventLine \in m_breakpoints) => StateNotified("Paused") ]_vars
    /\ [][ (m_debugState = "Paused" /\ m_debugState' = "Running") =>
              (StateNotified("Running") /\ m_isExecuting') ]_vars

C19_SetBreakpoints ==
    /\ [][ m_breakpoints' # m_breakpoints => m_breakpoints' = breakpoints' ]_vars
    /\ [][ (LineTraced /\ m_debugState = "Running" /\ bpSess = cur.sess) =>
              (m_debugState' = "Paused" <=> EventLine \in m_breakpoints) ]_vars

\* C21: every call of the worker into the interpreter (trace hook, output
\* redirection, executeCode, setting or querying the error indicator) is made
\* with the GIL held, on the fault path too.
C21_GilHeldOnAccess == \A a \in touched : a.gil

\* C22: every call of the trace callback returns 0, whatever the registered
\* runner, its abort flag and the frame.
C22_TraceReturnsZero == lastTrace.called => lastTrace.ret = 0

\* The callback was called with a frame while the registered runner was
\* aborted.
C22_Witness ==
    /\ lastTrace.called /\ lastTrace.runner # NoRunner
    /\ lastTrace.abort /\ lastTrace.frame # NoFrame /\ lastTrace.ret = 0

\* The trace callback is called in this step.
BridgeCalled ==
    \/ lastTrace' # lastTrace
    \/ \E r \in Runners : Len(r_posted'[r]) > Len(r_posted[r])

\* C23: a call of the trace callback with no runner registered posts
\* nothing, changes no runner's state and returns 0.
C23_NoRunnerDropped ==
    [][ (BridgeCalled /\ g_currentRunner = NoRunner) =>
           /\ lastTrace'.ret = 0
           /\ UNCHANGED << r_posted, r_shouldAbort, activeRunner, constructed,
                           g_currentRunner >> ]_vars

\* The callback was called with a frame and no runner registered.
C23_Witness ==
    /\ lastTrace.called /\ lastTrace.runner = NoRunner /\ lastTrace.frame # NoFrame
    /\ constructed = {} /\ \A r \in Runners : r_posted[r] = << >>

\* C24: a trace event of an executing session goes to the runner whose
\* session executes: that runner's abort flag decides whether a lambda is
\* posted, and the lambda is posted to that runner.
C24_ForwardedToActive ==
    [][ (BridgeCalled /\ activeRunner # NoRunner /\ lastTrace'.frame # NoFrame) =>
           \A r \in Runners :
              Len(r_posted'[r]) > Len(r_posted[r])
                 <=> (r = activeRunner /\ ~r_shouldAbort[activeRunner]) ]_vars

CallerStepDuringExec == wpc = "exec" /\ wpc' = "exec" /\ cur' = cur

\* C26: while the worker executes a program (it reads m_shouldAbort at every
\* trace event, without a lock), the Caller's thread writes no field of the
\* runner other than the breakpoint set and the debug state.
C26_OnlyDebugStateShared ==
    [][ CallerStepDuringExec =>
           UNCHANGED << m_isExecuting, m_shouldAbort, m_callDepth, m_currentLine >>
      ]_vars

C28_AbortMonotone ==
    [][ (m_shouldAbort /\ ~m_shouldAbort') =>
           (~m_isExecuting /\ session' = session + 1) ]_vars

\* abortExecution() was called twice during one session, which goes on.
C28_Witness ==
    /\ abortCalled /\ m_shouldAbort /\ m_isExecuting /\ afterAbort >= 1
    /\ wpc = "exec" /\ cur.ip <= Len(Body(cur.code))

\* The message contains the interpreter's description of the fault.
CarriesDescription(msg) == msg \in {FaultDescription, PythonErrorText}

\* C29: a session ended by an uncaught fault of its program has left the
\* worker in its event loop with an errorOccurred emitted, and every
\* errorOccurred of the session carries the interpreter's description.
C29_FaultDescribed ==
    \A k \in 1..session :
       outcome[k] = "fault" =>
          /\ Count("errorOccurred", k) >= 1
          /\ cur.sess # k
          /\ \A i \in Positions("errorOccurred", k) : CarriesDescription(emitted[i].arg)

\* No submission is queued, no session is queued or running, and the window
\* has handled every signal.
Quiescent ==
    /\ wpc = "loop" /\ delivered = Len(emitted)
    /\ \A i \in 1..Len(wq) : wq[i].type = "line"

\* C30: once every accepted session has ended and the window has handled
\* all signals, the window is idle again (its executing flag is false, so
\* Run submits code), however the sessions ended.
C30_WindowReturnsIdle == Quiescent => ~win_isExecuting

\* C31: a runCode the window posted in answer to an executionFinished is
\* accepted when the worker handles it: the executing flag of the finished
\* session is clear by then, after a normal end and after a fault.
C31_ReplyAccepted ==
    [][ (RunCodeHandled /\ Head(wq).reply > 0) =>
           (~m_isExecuting /\ session' = session + 1 /\ m_isExecuting') ]_vars

\* C32: while the worker is not inside executeCode (no session is active, or
\* the session's program has ended) no trace hook is installed, however the
\* last session ended.
C32_TraceUninstalled == wpc # "exec" => ~traceInstalled

\* C33: the worker's acquisitions and releases of the GIL are balanced in
\* every session: a release follows an acquisition and comes once, the
\* worker holds the GIL exactly between the two, and it holds none when it
\* is not inside executeCode.
C33_GilBalanced ==
    /\ gilLog \in {<< >>, << "ensure" >>, << "ensure", "release" >>}
    /\ gilHeld <=> gilLog = << "ensure" >>
    /\ gilHeld <=> wpc = "exec"

\* A session ended by a fault and a later one that ran to its end have each
\* released the GIL they acquired.
C33_Witness ==
    /\ session = 2 /\ outcome[1] = "fault" /\ outcome[2] = "normal"
    /\ gilLog = << "ensure", "release" >> /\ ~gilHeld

\* C34: once the program of a session has ended, and while no session
\* runs, the interpreter's error indicator is clear.
C34_NoPendingError == wpc # "exec" => ~pyErrSet

\* The calls of PyWindow::appendError for session k so far.
AppendErrorCalls(k) ==
    Cardinality({i \in 1..delivered :
                    emitted[i].sess = k /\ emitted[i].sig \in AppendErrorSignals})

\* C35: once the window has handled every signal of a session that ended
\* with a fault of its program, appendError was called exactly once for it.
C35_OneErrorEntry ==
    \A k \in 1..session :
       (outcome[k] = "fault" /\ delivered = Len(emitted)) => AppendErrorCalls(k) = 1

\* C36: g_currentRunner is null or names a live instance, and no lambda is
\* queued for an instance that was destroyed.
C36_RunnerNullOrLive ==
    /\ g_currentRunner \in constructed \cup {NoRunner}
    /\ \A r \in Runners \ constructed : r_posted[r] = << >>

\* C37: once abortExecution() was called during a session, no step posts a
\* lineExecuted lambda for the session: the trace events that come after the
\* call produce no notification.
C37_NoLineAfterAbort == [][ abortCalled => posted' = posted ]_vars

\* Two trace events came after an abort called before the program's first
\* statement, and the session's only lambda is the one posted before the call.
C37_Witness ==
    /\ session >= 1 /\ abortCalled /\ afterAbort >= 2
    /\ posted[session] = << RedirectClassLine >>

\* C38: every change of the editor's breakpoint set hands the complete new
\* set to setBreakpoints, so the set last handed over is the editor's set;
\* and toggling any line twice gives back the set the editor has.
C38_BreakpointHandOff ==
    /\ [](m_breakpoints = breakpoints)
    /\ [](\A l \in BreakLines : Toggled(Toggled(breakpoints, l), l) = breakpoints)
    /\ [][ breakpoints' # breakpoints =>
              /\ m_breakpoints' = breakpoints'
              /\ \E l \in BreakLines : /\ breakpoints' = Toggled(breakpoints, l)
                                       /\ breakpoints = Toggled(breakpoints', l) ]_vars

\* Both lines were toggled in and the runner was handed the set of the two.
C38_Witness == breakpoints = BreakLines /\ m_breakpoints = BreakLines

\* PyEditor::setCurrentLine is called in this step.
SetLineCalled == lastSet' # lastSet

\* C39: a call of setCurrentLine with the line of the call before it, or
\* with a negative line, leaves the editor's current line as it is and emits
\* no currentLineChanged; after a call with a line that is not negative the
\* current line is that line.
C39_SetLineIdempotent ==
    /\ [][ (SetLineCalled /\ lastSet.called /\ lastSet'.line = lastSet.line) =>
              (currentLine' = currentLine /\ ~lastSet'.changed) ]_vars
    /\ [][ (SetLineCalled /\ lastSet'.line < 0) =>
              (currentLine' = currentLine /\ ~lastSet'.changed) ]_vars
    /\ [][ (SetLineCalled /\ lastSet'.line >= 0) => currentLine' = lastSet'.line ]_vars

\* Line 2 was delivered twice in a row: the second call changed nothing.
C39_Witness ==
    /\ lastSet.called /\ lastSet.line = 2 /\ ~lastSet.changed /\ currentLine = 2

====
